---- MODULE Spec2Model ----
(***************************************************************************)
(* Model of src/app.py (the live code, lines 168-391): the Flask handlers  *)
(* generate_pdf, list_challans and download_pdf over the PostgreSQL table  *)
(* challans.                                                               *)
(*                                                                         *)
(* Numbers.  JSON numbers are Python ints/floats.  Every number of the     *)
(* model is a dyadic rational held as an integer count of sixteenths       *)
(* (16 = 1.0, 8 = 0.5, 2 = 0.125); on such values Python's float product   *)
(* and sum are exact, '%.2f' is round-half-to-even on the exact value, and *)
(* a float4 (REAL) holds every value below 2^24 sixteenths exactly.        *)
(* A formatted amount "Rs x.yz" is held as its number of cents.            *)
(*                                                                         *)
(* Left out: created_at and the date of the header line (no clock), the    *)
(* search, sort and date parameters of list_challans, the CORS preflight,  *)
(* and totals beyond the range of a 32-bit INTEGER.                        *)
(***************************************************************************)
EXTENDS Integers, Sequences, FiniteSets, TLC

\* ------------------------------------------------------------------ bounds
NumClients == 2      \* concurrent HTTP clients (worker threads)
MaxItems == 2        \* longest items list a request of SpecData carries
MaxId == 2           \* ids the SERIAL sequence may hand out

Clients == 1..NumClients

\* ------------------------------------------------------------- input data
CustomerName == "Acme Co"
ChallanNos == {"C-001", "C-002"}

\* quantity 3, price 0.125
ItemBolt ==
  [isdict |-> TRUE, has_description |-> TRUE, description |-> "Bolt",
   encodable |-> TRUE, qtype |-> "num", quantity |-> 48,
   has_price |-> TRUE, price |-> 2]
\* quantity 0.5, price absent
ItemNut ==
  [isdict |-> TRUE, has_description |-> TRUE, description |-> "Nut",
   encodable |-> TRUE, qtype |-> "num", quantity |-> 8,
   has_price |-> FALSE, price |-> 0]
\* no description key
ItemNoDesc ==
  [isdict |-> TRUE, has_description |-> FALSE, description |-> "",
   encodable |-> TRUE, qtype |-> "num", quantity |-> 16,
   has_price |-> TRUE, price |-> 16]
\* no quantity key
ItemNoQty ==
  [isdict |-> TRUE, has_description |-> TRUE, description |-> "Pin",
   encodable |-> TRUE, qtype |-> "absent", quantity |-> 0,
   has_price |-> TRUE, price |-> 16]
\* quantity is the JSON string "x": int + str raises TypeError
ItemStrQty ==
  [isdict |-> TRUE, has_description |-> TRUE, description |-> "Rod",
   encodable |-> TRUE, qtype |-> "str", quantity |-> 0,
   has_price |-> FALSE, price |-> 0]
\* a JSON number where an object is expected
ItemScalar ==
  [isdict |-> FALSE, has_description |-> FALSE, description |-> "",
   encodable |-> TRUE, qtype |-> "absent", quantity |-> 0,
   has_price |-> FALSE, price |-> 0]
\* description holds a character outside latin-1: FPDF.cell raises
ItemBadText ==
  [isdict |-> TRUE, has_description |-> TRUE, description |-> "Nut (non-latin1)",
   encodable |-> FALSE, qtype |-> "num", quantity |-> 16,
   has_price |-> TRUE, price |-> 16]

Catalog == {ItemBolt, ItemNut, ItemNoDesc, ItemNoQty, ItemStrQty, ItemBadText}

RECURSIVE SeqsUpTo(_, _)
SeqsUpTo(S, n) ==
  IF n = 0 THEN {<<>>}
  ELSE LET shorter == SeqsUpTo(S, n - 1)
       IN  shorter \cup {Append(s, x) : s \in {t \in shorter : Len(t) = n - 1}, x \in S}

Request(json, fields, islist, items, no) ==
  [is_json |-> json, has_fields |-> fields, items_is_list |-> islist,
   items |-> items, customerName |-> CustomerName, challanNo |-> no]

\* the requests of the sequential, data-rich specification
DataRequests ==
  {Request(TRUE, TRUE, TRUE, its, no) : its \in SeqsUpTo(Catalog, MaxItems), no \in ChallanNos}
    \cup {Request(FALSE, TRUE, TRUE, <<ItemBolt>>, "C-001"),
          Request(TRUE, FALSE, TRUE, <<ItemBolt>>, "C-001"),
          Request(TRUE, TRUE, FALSE, <<>>, "C-001"),
          Request(TRUE, TRUE, TRUE, <<ItemBolt, ItemScalar>>, "C-001")}

\* the requests of the concurrent specification
ConcRequests ==
  {Request(TRUE, TRUE, TRUE, <<ItemBolt>>, "C-001"),
   Request(TRUE, TRUE, TRUE, <<ItemNut, ItemBolt>>, "C-001"),
   Request(TRUE, TRUE, TRUE, <<ItemBolt, ItemNut>>, "C-002"),
   Request(TRUE, TRUE, TRUE, <<ItemNut, ItemStrQty>>, "C-002"),
   Request(TRUE, TRUE, TRUE, <<>>, "C-002")}

NoRequest == Request(FALSE, FALSE, FALSE, <<>>, "")

\* ---------------------------------------------------------------- numbers
\* quantity * price of two values in sixteenths (exact on the model's values)
Mul(a, b) == (a * b) \div 16

\* '%.2f' % v: the cents of v sixteenths, round-half-to-even on the exact value
Fmt2Floor(v) == (v * 25) \div 4
Fmt2(v) ==
  LET n == v * 25
      q == n \div 4
      r == n % 4
  IN  IF r < 2 THEN q
      ELSE IF r > 2 THEN q + 1
      ELSE IF q % 2 = 0 THEN q ELSE q + 1

\* a numeric value assigned to an INTEGER column: rounded to the nearest
\* integer, ties away from zero; the result is in sixteenths again
ToInteger(v) == ((v + 8) \div 16) * 16

\* a value assigned to a REAL (float4) column: rounded to 24 significant bits
RECURSIVE ExcessBits(_)
ExcessBits(v) == IF v < 16777216 THEN 0 ELSE 1 + ExcessBits(v \div 2)
ToReal(v) ==
  LET u == 2 ^ ExcessBits(v)
      q == v \div u
      r == v % u
  IN  IF u = 1 THEN v
      ELSE IF 2 * r > u \/ (2 * r = u /\ q % 2 = 1) THEN (q + 1) * u
      ELSE q * u

\* ----------------------------------------------------------------- cells
\* one FPDF.cell call: width, the format of its text, the text's string and
\* numeric arguments, and whether the line ends after it
Cell(w, fmt, arg, num, ln) == [w |-> w, fmt |-> fmt, arg |-> arg, num |-> num, ln |-> ln]

HeaderCells(customer_name, challan_no) ==
  << Cell(200, "Shakti Trading Co.", "", 0, TRUE),
     Cell(200, "Date: %d-%m-%Y", "now", 0, TRUE),
     Cell(200, "Customer: %s", customer_name, 0, TRUE),
     Cell(200, "Challan No: %s", challan_no, 0, TRUE),
     Cell(30, "Quantity", "", 0, FALSE),
     Cell(80, "Description", "", 0, FALSE),
     Cell(30, "Price", "", 0, FALSE),
     Cell(30, "Total", "", 0, TRUE) >>

\* item.get('price', 0)
PriceMissingIsOne(item) == IF item.has_price THEN item.price ELSE 16
PriceOf(item) == IF item.has_price THEN item.price ELSE 0

ItemTotal(item) == Mul(item.quantity, PriceOf(item))

RowCells(item) ==
  << Cell(30, "%s", "", item.quantity, FALSE),
     Cell(80, "%s", item.description, 0, FALSE),
     Cell(30, "Rs %.2f", "", Fmt2(PriceOf(item)), FALSE),
     Cell(30, "Rs %.2f", "", Fmt2(ItemTotal(item)), TRUE) >>

\* the loop body raises: str quantity (format code 'f' on a str), or a
\* description FPDF cannot encode
RowRaises(item) == item.qtype # "num" \/ ~item.encodable

TotalCellsThenFooter(total) ==
  << Cell(140, "Total", "", 0, FALSE),
     Cell(30, "Rs %.2f", "", Fmt2(total), TRUE),
     Cell(200, "Thank you for your business", "", 0, TRUE),
     Cell(200, "Generated on %d-%m-%Y %H:%M", "now", 0, TRUE) >>
TotalCells(total) ==
  << Cell(140, "Total", "", 0, FALSE),
     Cell(30, "Rs %.2f", "", Fmt2(total), TRUE) >>

\* pdf.output(dest='S').encode('latin1'): a Python bytes object
Output(cells) == [pytype |-> "bytes", content |-> [magic |-> "%PDF-1.3", cells |-> cells]]

\* ------------------------------------------------------------- responses
NoCells == <<>>
NoContent == [magic |-> "", cells |-> NoCells]
Response(status, error, id, no, body, ctype, disp, rows) ==
  [status |-> status, error |-> error, challanId |-> id, challanNo |-> no,
   body |-> body, content_type |-> ctype, disposition |-> disp, rows |-> rows]
NoResponse == Response(0, "", 0, "", NoContent, "", <<>>, {})
ErrorResponse(status, error) == Response(status, error, 0, "", NoContent, "", <<>>, {})

\* ------------------------------------------------------------ validation
ItemInvalid(item) ==
  ~item.isdict \/ item.qtype = "absent" \/ ~item.has_description

ItemsRejectedOnlyNonList(d) == ~d.items_is_list
ItemsRejected(d) == ~d.items_is_list \/ d.items = <<>>

\* the 400 response of lines 240-256, or NoResponse when the request passes
ValidationError(d) ==
  IF ~d.is_json THEN ErrorResponse(400, "Content-Type must be application/json")
  ELSE IF ~d.has_fields THEN ErrorResponse(400, "Missing required fields")
  ELSE IF ItemsRejected(d) THEN ErrorResponse(400, "Items must be a non-empty array")
  ELSE IF \E i \in 1..Len(d.items) : ItemInvalid(d.items[i])
       THEN ErrorResponse(400, "Invalid item")
  ELSE NoResponse

\* ------------------------------------------------------------------ state
VARIABLES
  challans,          \* the committed rows of table challans
  challans_id_seq,   \* the next value of the SERIAL sequence of challans.id
  txn,               \* per client: the row its open transaction has inserted
  pc,                \* per client: where its handler stands
  data,              \* per client: request.json
  k,                 \* per client: index of the next item of the for loop
  pdf,               \* per client: the cells drawn on its FPDF object
  total_items,       \* per client: local total_items
  total_price,       \* per client: local total_price
  pdf_content,       \* per client: local pdf_content
  challan_id,        \* per client: the id its INSERT drew from the sequence
  response           \* per client: the response of its last request

vars == << challans, challans_id_seq, txn, pc, data, k, pdf, total_items,
           total_price, pdf_content, challan_id, response >>

NoBytes == [pytype |-> "bytes", content |-> NoContent]

Init ==
  /\ challans = {}
  /\ challans_id_seq = 1
  /\ txn = [c \in Clients |-> {}]
  /\ pc = [c \in Clients |-> "idle"]
  /\ data = [c \in Clients |-> NoRequest]
  /\ k = [c \in Clients |-> 1]
  /\ pdf = [c \in Clients |-> NoCells]
  /\ total_items = [c \in Clients |-> 0]
  /\ total_price = [c \in Clients |-> 0]
  /\ pdf_content = [c \in Clients |-> NoBytes]
  /\ challan_id = [c \in Clients |-> 0]
  /\ response = [c \in Clients |-> NoResponse]

InFlight == {c \in Clients : pc[c] \notin {"idle", "done"}}

\* the handler's frame is gone: its locals with it
DropLocals(c) ==
  /\ data' = [data EXCEPT ![c] = NoRequest]
  /\ k' = [k EXCEPT ![c] = 1]
  /\ pdf' = [pdf EXCEPT ![c] = NoCells]
  /\ total_items' = [total_items EXCEPT ![c] = 0]
  /\ total_price' = [total_price EXCEPT ![c] = 0]
  /\ pdf_content' = [pdf_content EXCEPT ![c] = NoBytes]
  /\ challan_id' = [challan_id EXCEPT ![c] = 0]

Respond(c, r) ==
  /\ response' = [response EXCEPT ![c] = r]
  /\ pc' = [pc EXCEPT ![c] = "done"]
  /\ DropLocals(c)

\* a POST /api/generate-pdf arrives
Submit(c, requests) ==
  /\ pc[c] \in {"idle", "done"}
  /\ challans_id_seq + Cardinality(InFlight) <= MaxId
  /\ \E d \in requests :
       /\ data' = [data EXCEPT ![c] = d]
       /\ pc' = [pc EXCEPT ![c] = "validate"]
       /\ response' = [response EXCEPT ![c] = NoResponse]
  /\ UNCHANGED << challans, challans_id_seq, txn, k, pdf, total_items,
                  total_price, pdf_content, challan_id >>

\* lines 240-259
Validate(c) ==
  /\ pc[c] = "validate"
  /\ IF ValidationError(data[c]) # NoResponse
       THEN Respond(c, ValidationError(data[c]))
       ELSE /\ pc' = [pc EXCEPT ![c] = "header"]
            /\ UNCHANGED << data, k, pdf, total_items, total_price, pdf_content,
                            challan_id, response >>
  /\ UNCHANGED << challans, challans_id_seq, txn >>

\* lines 262-279
DrawHeader(c) ==
  /\ pc[c] = "header"
  /\ pdf' = [pdf EXCEPT ![c] = HeaderCells(data[c].customerName, data[c].challanNo)]
  /\ total_items' = [total_items EXCEPT ![c] = 0]
  /\ total_price' = [total_price EXCEPT ![c] = 0]
  /\ k' = [k EXCEPT ![c] = 1]
  /\ pc' = [pc EXCEPT ![c] = "rows"]
  /\ UNCHANGED << challans, challans_id_seq, txn, data, pdf_content, challan_id, response >>

\* the item the for loop of line 281 visits next
NextItemReversed(c) == data[c].items[Len(data[c].items) + 1 - k[c]]
NextItem(c) == data[c].items[k[c]]

LoopDoneAfterFirst(c) == k[c] > 1
LoopDone(c) == k[c] > Len(data[c].items)

\* one per-call local of generate_pdf
SharedLocal(f, c) == f[1]
Local(f, c) == f[c]

\* lines 281-292, one iteration
DrawRow(c) ==
  /\ pc[c] = "rows"
  /\ ~LoopDone(c)
  /\ IF RowRaises(NextItem(c))
       THEN Respond(c, ErrorResponse(500, "exception in the loop body"))
       ELSE /\ pdf' = [pdf EXCEPT ![c] = Local(pdf, c) \o RowCells(NextItem(c))]
            /\ total_items' = [total_items EXCEPT ![c] = Local(total_items, c) + NextItem(c).quantity]
            /\ total_price' = [total_price EXCEPT ![c] = Local(total_price, c) + ItemTotal(NextItem(c))]
            /\ k' = [k EXCEPT ![c] = k[c] + 1]
            /\ UNCHANGED << pc, data, pdf_content, challan_id, response >>
  /\ UNCHANGED << challans, challans_id_seq, txn >>

\* lines 294-296
DrawTotal(c) ==
  /\ pc[c] = "rows"
  /\ LoopDone(c)
  /\ pdf' = [pdf EXCEPT ![c] = Local(pdf, c) \o TotalCells(Local(total_price, c))]
  /\ pc' = [pc EXCEPT ![c] = "output"]
  /\ UNCHANGED << challans, challans_id_seq, txn, data, k, total_items, total_price,
                  pdf_content, challan_id, response >>

\* line 299
OutputPdf(c) ==
  /\ pc[c] = "output"
  /\ pdf_content' = [pdf_content EXCEPT ![c] = Output(Local(pdf, c))]
  /\ pc' = [pc EXCEPT ![c] = "insert"]
  /\ UNCHANGED << challans, challans_id_seq, txn, data, k, pdf, total_items, total_price,
                  challan_id, response >>

\* ---------------------------------------------------------------- the table
\* the row of the INSERT of lines 304-309, with the columns' conversions:
\* total_items INTEGER, total_price REAL, is_deleted DEFAULT false
NewRow(c) ==
  [id |-> challan_id[c],
   customer_name |-> data[c].customerName,
   challan_no |-> data[c].challanNo,
   pdf_data |-> pdf_content[c].content,
   items |-> data[c].items,
   total_items |-> ToInteger(Local(total_items, c)),
   total_price |-> ToReal(Local(total_price, c)),
   is_deleted |-> FALSE]

\* challan_no TEXT NOT NULL UNIQUE: a committed row holds the key
NoUniqueCheck(c) == FALSE
UniqueViolation(c) == \E r \in challans : r.challan_no = data[c].challanNo

\* another open transaction has inserted the key: the statement waits for it
KeyLocked(c) == \E o \in Clients \ {c} : \E r \in txn[o] : r.challan_no = data[c].challanNo

\* lines 302-309: the INSERT starts and draws nextval of the id sequence
InsertBegin(c) ==
  /\ pc[c] = "insert"
  /\ challan_id' = [challan_id EXCEPT ![c] = challans_id_seq]
  /\ challans_id_seq' = challans_id_seq + 1
  /\ pc' = [pc EXCEPT ![c] = "unique"]
  /\ UNCHANGED << challans, txn, data, k, pdf, total_items, total_price, pdf_content, response >>

\* lines 304-310: the unique index is checked and the row inserted in the
\* client's open transaction, or UniqueViolation is raised and caught at 320
InsertRow(c) ==
  /\ pc[c] = "unique"
  /\ ~KeyLocked(c)
  /\ IF UniqueViolation(c)
       THEN /\ Respond(c, ErrorResponse(500, "UniqueViolation"))
            /\ UNCHANGED txn
       ELSE /\ txn' = [txn EXCEPT ![c] = {NewRow(c)}]
            /\ pc' = [pc EXCEPT ![c] = "commit"]
            /\ UNCHANGED << data, k, pdf, total_items, total_price, pdf_content,
                            challan_id, response >>
  /\ UNCHANGED << challans, challans_id_seq >>

\* lines 311-318
Commit(c) ==
  /\ pc[c] = "commit"
  /\ challans' = challans \cup txn[c]
  /\ txn' = [txn EXCEPT ![c] = {}]
  /\ Respond(c, Response(200, "", challan_id[c], data[c].challanNo, NoContent, "", <<>>, {}))
  /\ UNCHANGED challans_id_seq

\* lines 324-363, with no search term and no date filter
ListChallans(c) ==
  /\ pc[c] \in {"idle", "done"}
  /\ response' = [response EXCEPT ![c] =
       Response(200, "", 0, "", NoContent, "", <<>>,
                {[id |-> r.id, customer_name |-> r.customer_name, challan_no |-> r.challan_no,
                  total_items |-> r.total_items, total_price |-> r.total_price]
                   : r \in {x \in challans : ~x.is_deleted}})]
  /\ pc' = [pc EXCEPT ![c] = "done"]
  /\ UNCHANGED << challans, challans_id_seq, txn, data, k, pdf, total_items, total_price,
                  pdf_content, challan_id >>

\* a BYTEA column read through psycopg2: a memoryview over the stored bytes
FetchBytea(v) == [pytype |-> "memoryview", content |-> v]

\* flask.make_response(rv) of one argument: a str, bytes or bytearray becomes
\* the body of a 200 response; any other non-response, non-callable object
\* raises TypeError, which download_pdf catches at line 386
MakeResponse(rv) ==
  IF rv.pytype \in {"str", "bytes", "bytearray"}
    THEN Response(200, "", 0, "", rv.content, "text/html", <<>>, {})
    ELSE ErrorResponse(500, "TypeError")

\* lines 365-388
DownloadResponse(challan_id_arg) ==
  LET result == {r \in challans : r.id = challan_id_arg}
  IN  IF result = {} THEN ErrorResponse(404, "PDF not found")
      ELSE LET row == CHOOSE r \in result : TRUE
               made == MakeResponse(FetchBytea(row.pdf_data))
           IN  IF made.status # 200 THEN made
               ELSE [made EXCEPT !.content_type = "application/pdf",
                                 !.disposition = <<"attachment; filename=challan_",
                                                   row.challan_no, ".pdf">>]

DownloadPdf(c) ==
  /\ pc[c] \in {"idle", "done"}
  /\ \E challan_id_arg \in 1..MaxId :
       response' = [response EXCEPT ![c] = DownloadResponse(challan_id_arg)]
  /\ pc' = [pc EXCEPT ![c] = "done"]
  /\ UNCHANGED << challans, challans_id_seq, txn, data, k, pdf, total_items, total_price,
                  pdf_content, challan_id >>

\* ----------------------------------------------------------- specifications
Handler(c) ==
  \/ Validate(c)
  \/ DrawHeader(c)
  \/ DrawRow(c)
  \/ DrawTotal(c)
  \/ OutputPdf(c)
  \/ InsertBegin(c)
  \/ InsertRow(c)
  \/ Commit(c)
  \/ ListChallans(c)
  \/ DownloadPdf(c)

\* concurrent clients, a few requests
Next == \E c \in Clients : Submit(c, ConcRequests) \/ Handler(c)
Spec == Init /\ [][Next]_vars

\* one client, every request of DataRequests
NextData == Submit(1, DataRequests) \/ Handler(1)
SpecData == Init /\ [][NextData]_vars

\* ------------------------------------------------- what the claims refer to
RECURSIVE SumQuantity(_)
SumQuantity(items) ==
  IF items = <<>> THEN 0 ELSE items[1].quantity + SumQuantity(Tail(items))

\* quantity * price of one item, an absent price counting as 0
LineTotal(item) == IF item.has_price THEN (item.quantity * item.price) \div 16 ELSE 0

RECURSIVE SumLineTotals(_)
SumLineTotals(items) ==
  IF items = <<>> THEN 0 ELSE LineTotal(items[1]) + SumLineTotals(Tail(items))

\* cents of v sixteenths rounded half to even, by the remainder of 16
Cents(v) ==
  LET lo == (100 * v) \div 16
      twice == 2 * ((100 * v) % 16)
  IN  IF twice < 16 THEN lo
      ELSE IF twice > 16 THEN lo + 1
      ELSE lo + (lo % 2)

\* a drawn amount of `cents` cents is exactly the value of v sixteenths
SameAmount(cents, v) == cents * 16 = v * 100

HeaderLen == Len(HeaderCells("", ""))
DocLen(items) == HeaderLen + 4 * Len(items) + 2

\* the clients whose handler has drawn the whole document and inserted its row
Rendered == {c \in Clients : pc[c] = "commit"}

\* row i of the table (after the header) shows item i
ShowsItem(cells, i, item) ==
  LET at == HeaderLen + 4 * (i - 1)
  IN  /\ cells[at + 1].fmt = "%s" /\ cells[at + 1].num = item.quantity
      /\ cells[at + 2].fmt = "%s" /\ cells[at + 2].arg = item.description
      /\ cells[at + 3].fmt = "Rs %.2f"
      /\ cells[at + 3].num = Cents(IF item.has_price THEN item.price ELSE 0)
      /\ cells[at + 4].fmt = "Rs %.2f" /\ cells[at + 4].num = Cents(LineTotal(item))
      /\ cells[at + 4].ln

IsTotalsRow(cells, at) ==
  /\ cells[at].fmt = "Total" /\ cells[at].w = 140 /\ ~cells[at].ln
  /\ cells[at + 1].fmt = "Rs %.2f" /\ cells[at + 1].ln

\* (C1, as amended) For every record generate_pdf accepts, the total_items
\* the render loop computes equals the sum of the items' quantities, and the
\* amount drawn in the 'Total' row is the sum of quantity*price over the
\* items (an absent price counting as 0) formatted to two decimals, half to
\* even.
C1_TotalsAreFormattedSums ==
  \A c \in Rendered :
    LET items == data[c].items
        n == Len(pdf[c])
    IN  /\ total_items[c] = SumQuantity(items)
        /\ n = DocLen(items)
        /\ IsTotalsRow(pdf[c], n - 1)
        /\ pdf[c][n].num = Cents(SumLineTotals(items))

\* (C1, as stated) ... the value drawn in the 'Total' row equals the sum of
\* quantity*price over the items.
C1_TotalRowIsExactSum ==
  \A c \in Rendered :
    /\ total_items[c] = SumQuantity(data[c].items)
    /\ SameAmount(pdf[c][Len(pdf[c])].num, SumLineTotals(data[c].items))

\* (C1, witness) a two-item record with an absent price is accepted and its
\* total does not fall on a whole cent
C1_Witness ==
  \E c \in Rendered :
    /\ Len(data[c].items) = 2
    /\ \E i \in 1..2 : ~data[c].items[i].has_price
    /\ SumLineTotals(data[c].items) > 0
    /\ ~SameAmount(Cents(SumLineTotals(data[c].items)), SumLineTotals(data[c].items))

TotalRowCents(content) == content.cells[Len(content.cells)].num

\* (C2) Every stored row has total_items equal to the sum of its items'
\* quantities, total_price equal to the sum of quantity*price over them, and
\* a total_price that is the same value as the grand total drawn in its
\* stored document.
C2_StoredAggregatesMatch ==
  \A r \in challans :
    /\ r.total_items = SumQuantity(r.items)
    /\ r.total_price = SumLineTotals(r.items)
    /\ SameAmount(TotalRowCents(r.pdf_data), r.total_price)

\* (C2, the first clause alone) stored total_items is the sum of quantities
C2_StoredTotalItemsIsSum ==
  \A r \in challans : r.total_items = SumQuantity(r.items)

\* (C2, the last clause alone) stored total_price is the drawn grand total
C2_StoredTotalPriceIsDrawn ==
  \A r \in challans : SameAmount(TotalRowCents(r.pdf_data), r.total_price)

\* a handler step of client c that leaves program point `at`
Leaves(c, at) == pc[c] = at /\ pc'[c] # at

\* (C3) A generate_pdf request whose items is an empty list or not a list
\* ends in validation with HTTP 400: nothing is drawn and no row is
\* inserted for it.
C3_EmptyItemsRejected ==
  [][\A c \in Clients :
       (Leaves(c, "validate") /\ (~data[c].items_is_list \/ data[c].items = <<>>))
         => /\ response'[c].status = 400
            /\ pc'[c] = "done"
            /\ pdf[c] = NoCells /\ pdf'[c] = NoCells
            /\ txn'[c] = {}
            /\ challans' = challans
            /\ challans_id_seq' = challans_id_seq]_vars

\* (C3, witness) a well-formed JSON request was rejected for its items
C3_Witness ==
  \E c \in Clients :
    /\ response[c].status = 400
    /\ response[c].error = "Items must be a non-empty array"
    /\ pc[c] = "done"

LacksRequired(item) == ~item.has_description \/ item.qtype = "absent"
AllRequired(d) ==
  /\ d.is_json /\ d.has_fields /\ d.items_is_list /\ d.items # <<>>
  /\ \A i \in 1..Len(d.items) : d.items[i].isdict /\ ~LacksRequired(d.items[i])
WellTyped(d) ==
  \A i \in 1..Len(d.items) : d.items[i].qtype = "num" /\ d.items[i].encodable

\* (C4) A request with an item lacking description or quantity ends with
\* HTTP 400 whatever its other items are.  A request whose items all have
\* description and quantity is not rejected by validation, priced or not; an
\* item without price is drawn with price 0.00 and line total 0.00, adds 0
\* to total_price and its quantity to total_items; and such a request, its
\* quantities numbers and its texts encodable, ends with an error only when
\* its challan number is already stored.
C4_RequiredFieldsAndDefaultPrice ==
  [][\A c \in Clients :
       /\ (Leaves(c, "validate")
             /\ \E i \in 1..Len(data[c].items) : LacksRequired(data[c].items[i]))
            => (response'[c].status = 400 /\ pc'[c] = "done" /\ challans' = challans)
       /\ (Leaves(c, "validate") /\ AllRequired(data[c]))
            => (pc'[c] = "header" /\ response'[c].status = 0)
       /\ (pc[c] = "rows" /\ k'[c] = k[c] + 1 /\ ~data[c].items[k[c]].has_price)
            => LET n == Len(pdf'[c])
               IN  /\ n = Len(pdf[c]) + 4
                   /\ pdf'[c][n - 1].num = 0 /\ pdf'[c][n].num = 0
                   /\ total_price'[c] = total_price[c]
                   /\ total_items'[c] = total_items[c] + data[c].items[k[c]].quantity
       /\ (pc[c] \in {"header", "rows", "output", "insert", "unique", "commit"}
             /\ pc'[c] = "done" /\ WellTyped(data[c]))
            => \/ response'[c].status = 200
               \/ pc[c] = "unique" /\ \E r \in challans : r.challan_no = data[c].challanNo]_vars

\* (C4, witness) a record holding an item without price was stored, next to
\* a priced one
C4_Witness ==
  \E r \in challans :
    /\ Len(r.items) = 2
    /\ ~r.items[1].has_price /\ r.items[1].quantity > 0
    /\ r.items[2].has_price /\ r.items[2].price > 0
    /\ r.total_price = LineTotal(r.items[2])

IsErrorFree(r) == r.challanId = 0 /\ r.body = NoContent /\ r.rows = {}

\* (C5) A generate_pdf request that ends with an error response returns no
\* document and no challan id and leaves the table as it was; a row enters
\* the table only in the step that ends a request with 200, after the whole
\* document (every item row and the totals row) has been drawn and encoded.
C5_NoPartialOutput ==
  [][/\ \A c \in Clients :
          (pc[c] \in {"validate", "header", "rows", "output", "insert", "unique", "commit"}
             /\ pc'[c] = "done" /\ response'[c].status # 200)
            => /\ response'[c].status \in {400, 500}
               /\ IsErrorFree(response'[c])
               /\ challans' = challans
               /\ txn[c] = {} /\ txn'[c] = {}
     /\ challans' # challans
          => \E c \in Clients :
               /\ pc[c] = "commit" /\ pc'[c] = "done"
               /\ response'[c].status = 200 /\ response'[c].challanId = challan_id[c]
               /\ challans' = challans \cup txn[c]
               /\ \A r \in txn[c] :
                    /\ r.id = challan_id[c]
                    /\ r.items = data[c].items
                    /\ r.pdf_data.magic = "%PDF-1.3"
                    /\ Len(r.pdf_data.cells) = DocLen(r.items)
                    /\ IsTotalsRow(r.pdf_data.cells, DocLen(r.items) - 1)]_vars

\* (C5, witness) a request failed on a duplicate challan number and another
\* in its loop body while the table holds a row
C5_Witness ==
  /\ challans # {}
  /\ \E c \in Clients : response[c].error = "UniqueViolation"
  /\ \E c \in Clients : response[c].error = "exception in the loop body"

\* (C6) No two rows of challans share a challan_no; rows are never changed
\* or removed; and an INSERT whose challan number is stored adds no row and
\* ends its request with an error.
C6_ChallanNoUnique ==
  /\ [](\A r1, r2 \in challans : r1.challan_no = r2.challan_no => r1 = r2)
  /\ [][/\ challans \subseteq challans'
        /\ \A c \in Clients :
             (Leaves(c, "unique") /\ \E r \in challans : r.challan_no = data[c].challanNo)
               => /\ challans' = challans
                  /\ txn'[c] = {}
                  /\ pc'[c] = "done"
                  /\ response'[c].status = 500
                  /\ response'[c].challanId = 0]_vars

\* (C6, witness) two requests for one challan number ran concurrently: one
\* row is stored and the other request ended with the error
C6_Witness ==
  \E c, o \in Clients :
    /\ c # o
    /\ response[c].status = 200 /\ response[c].challanNo = "C-001"
    /\ response[o].error = "UniqueViolation"
    /\ challan_id[o] = 0
    /\ response[o].challanId = 0 /\ response[c].challanId = 2
    /\ Cardinality(challans) = 1

\* the cells of a whole document show the items, one row each, in order,
\* between the table header and the totals row
ShowsItemsInOrder(cells, items) ==
  /\ Len(cells) = DocLen(items)
  /\ cells[HeaderLen].fmt = "Total" /\ cells[HeaderLen - 3].fmt = "Quantity"
  /\ \A i \in 1..Len(items) : ShowsItem(cells, i, items[i])
  /\ IsTotalsRow(cells, HeaderLen + 4 * Len(items) + 1)

\* (C7) For a valid record with N items generate_pdf draws exactly N item
\* rows, row i showing item i's quantity, description, price and line total,
\* all after the table header row and before the totals row.
C7_RowsInInputOrder ==
  /\ \A c \in Clients :
       /\ pc[c] = "rows" =>
            /\ Len(pdf[c]) = HeaderLen + 4 * (k[c] - 1)
            /\ \A i \in 1..(k[c] - 1) : ShowsItem(pdf[c], i, data[c].items[i])
       /\ pc[c] \in {"output", "insert", "unique", "commit"} =>
            ShowsItemsInOrder(pdf[c], data[c].items)
  /\ \A r \in challans : ShowsItemsInOrder(r.pdf_data.cells, r.items)

\* (C7, witness) a stored document of two different items
C7_Witness ==
  \E r \in challans :
    /\ Len(r.items) = 2
    /\ r.items[1] = ItemBolt /\ r.items[2] = ItemNut
    /\ r.pdf_data.cells[HeaderLen + 2].arg = "Bolt"
    /\ r.pdf_data.cells[HeaderLen + 6].arg = "Nut"

\* (C8) download_pdf of the id of a stored row returns that row's document
\* bytes with content type application/pdf and attachment filename
\* challan_<challanNo>.pdf; download_pdf of any other id returns 404 and no
\* document.
C8_DownloadReturnsDocument ==
  \A id \in 1..MaxId :
    IF \E r \in challans : r.id = id
      THEN \A r \in {x \in challans : x.id = id} :
             /\ DownloadResponse(id).status = 200
             /\ DownloadResponse(id).body = r.pdf_data
             /\ DownloadResponse(id).content_type = "application/pdf"
             /\ DownloadResponse(id).disposition =
                  <<"attachment; filename=challan_", r.challan_no, ".pdf">>
      ELSE DownloadResponse(id).status = 404 /\ DownloadResponse(id).body = NoContent

\* what one request draws and accumulates by item n, from its record alone
RECURSIVE CellsAlone(_, _)
CellsAlone(d, n) ==
  IF n = 0 THEN HeaderCells(d.customerName, d.challanNo)
  ELSE CellsAlone(d, n - 1) \o RowCells(d.items[n])

DocumentAlone(d) ==
  CellsAlone(d, Len(d.items)) \o TotalCells(SumLineTotals(d.items))

\* (C9) In every interleaving each request's drawn cells, total_items and
\* total_price are those its own record gives when run alone, and every row
\* stored holds the document and totals of its own record.
C9_RequestsIndependent ==
  /\ \A c \in Clients :
       /\ pc[c] = "rows" =>
            /\ pdf[c] = CellsAlone(data[c], k[c] - 1)
            /\ total_items[c] = SumQuantity(SubSeq(data[c].items, 1, k[c] - 1))
            /\ total_price[c] = SumLineTotals(SubSeq(data[c].items, 1, k[c] - 1))
       /\ pc[c] \in {"output", "insert", "unique", "commit"} =>
            /\ pdf[c] = DocumentAlone(data[c])
            /\ total_items[c] = SumQuantity(data[c].items)
            /\ total_price[c] = SumLineTotals(data[c].items)
       /\ pc[c] \in {"insert", "unique", "commit"} =>
            pdf_content[c] = Output(DocumentAlone(data[c]))
  /\ \A r \in challans \cup UNION {txn[c] : c \in Clients} :
       LET d == Request(TRUE, TRUE, TRUE, r.items, r.challan_no)
       IN  /\ r.customer_name = d.customerName
           /\ r.pdf_data = Output(DocumentAlone(d)).content
           /\ r.total_items = ToInteger(SumQuantity(r.items))
           /\ r.total_price = ToReal(SumLineTotals(r.items))

\* (C9, witness) two requests with different records are both inside their
\* loops, each with a row drawn
C9_Witness ==
  \E c, o \in Clients :
    /\ c # o
    /\ pc[c] = "rows" /\ pc[o] = "rows"
    /\ k[c] = 2 /\ k[o] = 2
    /\ data[c].items # data[o].items
    /\ data[c].challanNo # data[o].challanNo
    /\ pdf[c] # pdf[o]

\* (C10, as amended) Every completed render is, top to bottom: the title,
\* the date, customer and challan-number lines, the table header, the item
\* rows and the totals row; no footer is drawn: the totals row is the last
\* thing on the page.
C10_LayoutEndsWithTotals ==
  \A c \in Clients :
    pc[c] \in {"output", "insert", "unique", "commit"} =>
      LET cells == pdf[c]
      IN  /\ cells[1].fmt = "Shakti Trading Co."
          /\ cells[2].fmt = "Date: %d-%m-%Y"
          /\ cells[3].fmt = "Customer: %s" /\ cells[3].arg = data[c].customerName
          /\ cells[4].fmt = "Challan No: %s" /\ cells[4].arg = data[c].challanNo
          /\ cells[5].fmt = "Quantity" /\ cells[6].fmt = "Description"
          /\ cells[7].fmt = "Price" /\ cells[8].fmt = "Total"
          /\ \A i \in 9..(Len(cells) - 2) : cells[i].fmt \in {"%s", "Rs %.2f"}
          /\ Len(cells) = DocLen(data[c].items)
          /\ IsTotalsRow(cells, Len(cells) - 1)

\* (C10, as stated) ... in every successful render a footer is drawn after
\* the totals row.
C10_FooterAfterTotals ==
  \A c \in Rendered :
    \E i \in 1..(Len(pdf[c]) - 1) :
      /\ IsTotalsRow(pdf[c], i)
      /\ Len(pdf[c]) > i + 1

\* (C10, witness) a render of a two-item record is complete
C10_Witness ==
  \E c \in Rendered : Len(data[c].items) = 2 /\ Len(pdf[c]) = 18

====
